---- MODULE Spec2Model ----
(***************************************************************************)
(* The packaging manifest setup.py of result_py: one call of               *)
(* distutils.core.setup with ten keyword arguments, all of them literals.  *)
(*                                                                         *)
(* A Python string is modelled as the sequence of its characters, a list   *)
(* as the sequence of its elements.  One evaluation of the file is the     *)
(* import statement, the evaluation of the keyword arguments in the order  *)
(* they are written, and the call.  The file may be evaluated several      *)
(* times, each time by one of the interpreters it declares support for.    *)
(***************************************************************************)
EXTENDS Naturals, Sequences, FiniteSets

\* How many times the manifest is evaluated in one behaviour.
MaxRuns == 3

VARIABLES
    pc,       \* position in the file: "idle", "import", "args", "done"
    run,      \* number of evaluations started
    python,   \* minor version of the Python 3 interpreter of the current evaluation
    frame,    \* keyword arguments evaluated so far for the pending call, in order
    calls     \* the calls setup() has received: [run, python, kwargs]

vars == <<pc, run, python, frame, calls>>

----------------------------------------------------------------------------
(* Strings as character sequences. *)

RECURSIVE SplitFrom(_, _, _, _, _)
SplitFrom(s, sep, i, cur, acc) ==
    IF i > Len(s) THEN Append(acc, cur)
    ELSE IF s[i] = sep THEN SplitFrom(s, sep, i + 1, <<>>, Append(acc, cur))
    ELSE SplitFrom(s, sep, i + 1, Append(cur, s[i]), acc)

\* s.split(sep) for a one-character separator: empty components are kept.
Split(s, sep) == SplitFrom(s, sep, 1, <<>>, <<>>)

Digits == <<"0","1","2","3","4","5","6","7","8","9">>

IsDigit(ch) == \E n \in DOMAIN Digits : Digits[n] = ch

DigitVal(ch) == (CHOOSE n \in DOMAIN Digits : Digits[n] = ch) - 1

IsDigitRun(s) == Len(s) > 0 /\ \A i \in DOMAIN s : IsDigit(s[i])

RECURSIVE ToNat(_)
ToNat(s) ==
    IF s = <<>> THEN 0
    ELSE 10 * ToNat(SubSeq(s, 1, Len(s) - 1)) + DigitVal(s[Len(s)])

StartsWith(s, pre) == Len(s) >= Len(pre) /\ SubSeq(s, 1, Len(pre)) = pre

EndsWith(s, suf) ==
    Len(s) >= Len(suf) /\ SubSeq(s, Len(s) - Len(suf) + 1, Len(s)) = suf

NoDuplicates(list) ==
    \A i, j \in DOMAIN list : i # j => list[i] # list[j]

----------------------------------------------------------------------------
(* The literals of the call, setup.py lines 7 to 20. *)

\* setup.py:7   name = 'result_py'
name ==
    <<"r","e","s","u","l","t","_","p","y">>

\* A package list naming a directory other than the distribution.
packages_other ==
    << <<"r","e","s","u","l","t">> >>

\* setup.py:8   packages = ['result_py']
packages ==
    << <<"r","e","s","u","l","t","_","p","y">> >>

\* A version with the patch component left out.
version_short ==
    <<"0",".","1">>

\* The version an older interpreter would be given by version_by_interpreter.
version_old ==
    <<"0",".","0",".","9">>

\* A version chosen by the interpreter that evaluates the file.
version_by_interpreter ==
    IF python < 7 THEN version_old ELSE <<"0",".","1",".","0">>

\* setup.py:9   version = '0.1.0'
version ==
    <<"0",".","1",".","0">>

\* setup.py:10  description = '...', the value of the literal (its \' escape decoded to ').
description ==
    <<"A"," ","R","e","s","u","l","t"," ","t","y","p","e"," ","m","u","c","h"," ","l",
      "i","k","e"," ","R","u","s","t","'","s",","," ","f","e","a","t","u","r","i","n",
      "g"," ","g","e","n","e","r","i","c","s"," ","a","n","d"," ","l","o","v","e","l",
      "y"," ","c","o","m","b","i","n","a","t","o","r","s",".">>

\* setup.py:11  author = 'Zack Mullaly'
author ==
    <<"Z","a","c","k"," ","M","u","l","l","a","l","y">>

\* setup.py:12  author_email = 'zsck@riseup.net'
author_email ==
    <<"z","s","c","k","@","r","i","s","e","u","p",".","n","e","t">>

\* setup.py:13  url = 'https://github.com/zsck/result_py'
url ==
    <<"h","t","t","p","s",":","/","/","g","i","t","h","u","b",".","c","o","m","/","z",
      "s","c","k","/","r","e","s","u","l","t","_","p","y">>

\* setup.py:14  download_url = 'https://github.com/peterldowns/mypackage/archive/0.1.tar.gz'
download_url ==
    <<"h","t","t","p","s",":","/","/","g","i","t","h","u","b",".","c","o","m","/","p",
      "e","t","e","r","l","d","o","w","n","s","/","m","y","p","a","c","k","a","g","e",
      "/","a","r","c","h","i","v","e","/","0",".","1",".","t","a","r",".","g","z">>

\* setup.py:15  keywords = ['rust', 'result', 'generics', 'type hinting']
keywords ==
    << <<"r","u","s","t">>,
       <<"r","e","s","u","l","t">>,
       <<"g","e","n","e","r","i","c","s">>,
       <<"t","y","p","e"," ","h","i","n","t","i","n","g">> >>

\* A classifier list with 3.6 replaced by a second 3.7.
classifiers_gap ==
    << <<"P","r","o","g","r","a","m","m","i","n","g"," ","L","a","n","g","u","a","g",
         "e"," ",":",":"," ","P","y","t","h","o","n"," ",":",":"," ","3",".","5">>,
       <<"P","r","o","g","r","a","m","m","i","n","g"," ","L","a","n","g","u","a","g",
         "e"," ",":",":"," ","P","y","t","h","o","n"," ",":",":"," ","3",".","7">>,
       <<"P","r","o","g","r","a","m","m","i","n","g"," ","L","a","n","g","u","a","g",
         "e"," ",":",":"," ","P","y","t","h","o","n"," ",":",":"," ","3",".","7">> >>

\* setup.py:16-20  classifiers = [ 3.5, 3.6, 3.7 ]
classifiers ==
    << <<"P","r","o","g","r","a","m","m","i","n","g"," ","L","a","n","g","u","a","g",
         "e"," ",":",":"," ","P","y","t","h","o","n"," ",":",":"," ","3",".","5">>,
       <<"P","r","o","g","r","a","m","m","i","n","g"," ","L","a","n","g","u","a","g",
         "e"," ",":",":"," ","P","y","t","h","o","n"," ",":",":"," ","3",".","6">>,
       <<"P","r","o","g","r","a","m","m","i","n","g"," ","L","a","n","g","u","a","g",
         "e"," ",":",":"," ","P","y","t","h","o","n"," ",":",":"," ","3",".","7">> >>

\* The value of a keyword the manifest does not pass.
license_value ==
    <<"M","I","T">>

\* The call with one more keyword than the manifest passes.
SetupArgs_with_license ==
    << <<"name", name>>, <<"packages", packages>>, <<"version", version>>,
       <<"description", description>>, <<"author", author>>,
       <<"author_email", author_email>>, <<"url", url>>,
       <<"download_url", download_url>>, <<"keywords", keywords>>,
       <<"classifiers", classifiers>>, <<"license", license_value>> >>

\* The keyword arguments of setup(...), in the order they are written.
SetupArgs ==
    << <<"name", name>>, <<"packages", packages>>, <<"version", version>>,
       <<"description", description>>, <<"author", author>>,
       <<"author_email", author_email>>, <<"url", url>>,
       <<"download_url", download_url>>, <<"keywords", keywords>>,
       <<"classifiers", classifiers>> >>

\* The Python 3 minor versions the classifiers declare.
Interpreters == {5, 6, 7}

----------------------------------------------------------------------------
(* One evaluation of setup.py. *)

Init ==
    /\ pc = "idle"
    /\ run = 0
    /\ python \in Interpreters
    /\ frame = <<>>
    /\ calls = <<>>

\* An interpreter starts evaluating the file.
StartRun(v) ==
    /\ pc \in {"idle", "done"}
    /\ run < MaxRuns
    /\ run' = run + 1
    /\ python' = v
    /\ frame' = <<>>
    /\ pc' = "import"
    /\ UNCHANGED calls

\* Line 4: from distutils.core import setup.
ImportSetup ==
    /\ pc = "import"
    /\ pc' = "args"
    /\ UNCHANGED <<run, python, frame, calls>>

\* Lines 7 to 20: the next keyword argument is evaluated.
EvalKeyword ==
    /\ pc = "args"
    /\ Len(frame) < Len(SetupArgs)
    /\ frame' = Append(frame, SetupArgs[Len(frame) + 1])
    /\ UNCHANGED <<pc, run, python, calls>>

\* Lines 6 to 21: setup() is called with the evaluated keyword arguments.
CallSetup ==
    /\ pc = "args"
    /\ Len(frame) = Len(SetupArgs)
    /\ calls' = Append(calls, [run |-> run, python |-> python, kwargs |-> frame])
    /\ frame' = <<>>
    /\ pc' = "done"
    /\ UNCHANGED <<run, python>>

Next ==
    \/ \E v \in Interpreters : StartRun(v)
    \/ ImportSetup
    \/ EvalKeyword
    \/ CallSetup

Spec == Init /\ [][Next]_vars

----------------------------------------------------------------------------
(* What setup() received, read back from a recorded call. *)

Keys(kwargs) == {kwargs[i][1] : i \in DOMAIN kwargs}

Supplied(kwargs, key) == Cardinality({i \in DOMAIN kwargs : kwargs[i][1] = key})

Arg(kwargs, key) == kwargs[CHOOSE i \in DOMAIN kwargs : kwargs[i][1] = key][2]

Received == {calls[c].kwargs : c \in DOMAIN calls}

\* The text every Python 3 minor-version classifier starts with.
ClassifierPrefix ==
    <<"P","r","o","g","r","a","m","m","i","n","g"," ","L","a","n","g","u","a","g","e",
      " ",":",":"," ","P","y","t","h","o","n"," ",":",":"," ","3",".">>

\* The extension of a release archive's file name.
ArchiveSuffix ==
    <<".","t","a","r",".","g","z">>

\* The ten fields of the manifest's external interface.
ManifestFields ==
    {"name", "packages", "version", "description", "author", "author_email",
     "url", "download_url", "keywords", "classifiers"}

\* major.minor.patch: three dot-separated non-empty runs of decimal digits.
ValidVersion(v) ==
    LET parts == Split(v, ".")
    IN  /\ Len(v) > 0
        /\ Len(parts) = 3
        /\ \A i \in DOMAIN parts : IsDigitRun(parts[i])

\* The path of a URL scheme://host/seg1/seg2/...: what follows the host.
PathSegments(u) ==
    LET parts == Split(u, "/")
    IN  IF Len(parts) > 3 THEN SubSeq(parts, 4, Len(parts)) ELSE <<>>

LastSegment(u) ==
    LET parts == Split(u, "/") IN parts[Len(parts)]

\* Host, owner and repository of a repository URL or of a URL below it.
Project(u) ==
    LET parts == Split(u, "/")
    IN  IF Len(parts) >= 5 THEN SubSeq(parts, 3, 5) ELSE parts

\* The release an archive URL names: its file name without the extension.
ArchiveRelease(u) ==
    LET file == LastSegment(u)
    IN  IF EndsWith(file, ArchiveSuffix)
        THEN SubSeq(file, 1, Len(file) - Len(ArchiveSuffix))
        ELSE file

IsStringList(list) ==
    /\ Len(list) > 0
    /\ \A i \in DOMAIN list : Len(list[i]) > 0
    /\ NoDuplicates(list)

IsMinorClassifier(c) ==
    /\ StartsWith(c, ClassifierPrefix)
    /\ IsDigitRun(SubSeq(c, Len(ClassifierPrefix) + 1, Len(c)))

Minor(c) == ToNat(SubSeq(c, Len(ClassifierPrefix) + 1, Len(c)))

Minors(list) == {Minor(list[i]) : i \in DOMAIN list}

\* Evaluations that have run to their end.
Finished == {r \in 1..run : r < run \/ pc = "done"}

----------------------------------------------------------------------------
(* The claims. *)

\* C1: every call setup() receives supplies exactly the ten fields name,
\* packages, version, description, author, author_email, url, download_url,
\* keywords and classifiers, each of them once, and no other field.
C1_FieldSet ==
    \A kw \in Received :
        /\ Keys(kw) = ManifestFields
        /\ \A f \in ManifestFields : Supplied(kw, f) = 1
        /\ Len(kw) = Cardinality(ManifestFields)

\* A call has been received and it carries ten keyword arguments.
C1_Witness ==
    /\ Len(calls) >= 1
    /\ Len(calls[1].kwargs) = 10

\* C2: the version setup() receives is a valid version identifier: non-empty,
\* three dot-separated components (major.minor.patch), each a non-empty run
\* of decimal digits.
C2_VersionValid ==
    \A kw \in Received : ValidVersion(Arg(kw, "version"))

\* A call has been received whose version splits into the components 0, 1, 0.
C2_Witness ==
    /\ Len(calls) >= 1
    /\ Split(Arg(calls[1].kwargs, "version"), ".") = << <<"0">>, <<"1">>, <<"0">> >>

\* C3: in every call setup() receives, download_url identifies the same
\* project (owner and repository) as url, and the release number in the
\* archive file name of download_url equals the declared version.
C3_ReleaseConsistent ==
    \A kw \in Received :
        /\ Project(Arg(kw, "download_url")) = Project(Arg(kw, "url"))
        /\ ArchiveRelease(Arg(kw, "download_url")) = Arg(kw, "version")

C5_IdentityConsistent ==
    \A kw \in Received :
        /\ Len(Arg(kw, "packages")) = 1
        /\ Arg(kw, "packages")[1] = Arg(kw, "name")
        /\ LastSegment(Arg(kw, "url")) = Arg(kw, "name")

\* A call has been received whose url has a repository path of two segments
\* and whose package list is not empty.
C5_Witness ==
    /\ Len(calls) >= 1
    /\ Len(PathSegments(Arg(calls[1].kwargs, "url"))) = 2
    /\ Len(Arg(calls[1].kwargs, "packages")) > 0

\* C6: in every call setup() receives, keywords and classifiers are non-empty
\* lists of non-empty strings without duplicates, every classifier is
\* 'Programming Language :: Python :: 3.N' for a decimal N, and the minors N
\* are exactly the contiguous range 5 to 7.
C6_ListsWellFormed ==
    \A kw \in Received :
        /\ IsStringList(Arg(kw, "keywords"))
        /\ IsStringList(Arg(kw, "classifiers"))
        /\ \A i \in DOMAIN Arg(kw, "classifiers") :
               IsMinorClassifier(Arg(kw, "classifiers")[i])
        /\ Minors(Arg(kw, "classifiers")) = 5..7

\* A call has been received with four keywords and three classifiers.
C6_Witness ==
    /\ Len(calls) >= 1
    /\ Len(Arg(calls[1].kwargs, "keywords")) = 4
    /\ Len(Arg(calls[1].kwargs, "classifiers")) = 3

====
